---- MODULE Spec2Model ----
(***************************************************************************)
(* Model of src/bot.py: the per-user conversation state machine of the     *)
(* catalog bot, its relational store (users, categories, products) and     *)
(* the notification fan-out.                                               *)
(*                                                                         *)
(* The Application is built without concurrent_updates (bot.py:1177), so   *)
(* the library handles one update at a time: every handler is one atomic   *)
(* action of the model.                                                    *)
(*                                                                         *)
(* Message texts are sequences of tokens.  A token is " " (one whitespace  *)
(* character) or a run of non-whitespace characters; the Cyrillic/emoji    *)
(* literals of the source are written as ASCII transliterations.           *)
(***************************************************************************)
EXTENDS Integers, Sequences, FiniteSets, TLC

\* ADMIN_USER_ID = int(os.getenv("ADMIN_USER_ID", "0"))
ADMIN_USER_ID == 0

\* identities of the chat users that send events
UserIds == {0, 1, 2}

\* update.effective_user.full_name of each user ("" = no name set)
full_name == [u \in UserIds |-> IF u = 0 THEN "Admin" ELSE IF u = 1 THEN "Ann" ELSE ""]

\* ---- bounds of the model
\* number of updates the bot handles in a run of a scenario
MaxEvents == 5
\* number of updates the bot handles in a run with every input allowed
MaxAnyEvents == 2
\* values the categories.id SERIAL sequence may hand out
MaxCategoryId == 4
\* values the products.id SERIAL sequence may hand out
MaxProductId == 2

\* ---- literals of the source (transliterated)
\* "Назад"
BTN_BACK == <<"Nazad">>
\* "Другое"
BTN_OTHER == <<"Drugoe">>
\* "➕   Добавить товар"
BTN_ADD == <<"Dobavit tovar">>
\* "✅   Покупать"
BTN_BUY == <<"Pokupat">>
\* "❌   Не покупать"
BTN_AVOID == <<"Ne pokupat">>
\* "🔔"
BELL_ON == <<"bell">>
\* "🔕"
BELL_OFF == <<"bell_off">>
\* "я Лена"
LENA == <<"ya Lena">>
\* "❔   Справка"
BTN_HELP == <<"Spravka">>
\* "Отлично"
RATING_GOOD == <<"Otlichno">>
\* "Плохо"
RATING_BAD == <<"Ploho">>
\* "Изменить название"
EDIT_NAME == <<"Izmenit nazvanie">>
\* "Изменить фото"
EDIT_PHOTO == <<"Izmenit foto">>
\* "Неизвестно"
UNKNOWN == "Neizvestno"

\* Python None as a photo_file_id / absent string value
None == "None"

Digits == {"0", "1", "2", "3"}

\* collation order of the tokens (ORDER BY name)
Alphabet == <<" ", "0", "1", "2", "3", "A", "B", "Dobavit tovar", "Drugoe",
              "Izmenit foto", "Izmenit nazvanie", "Nazad", "Ne pokupat",
              "Otlichno", "Ploho", "Pokupat", "Spravka", "bell", "bell_off",
              "ya Lena">>

Rank(t) == CHOOSE i \in 1..Len(Alphabet) : Alphabet[i] = t

RECURSIVE NameLess(_, _)
NameLess(a, b) ==
    IF a = <<>> THEN b # <<>>
    ELSE IF b = <<>> THEN FALSE
    ELSE IF Head(a) = Head(b) THEN NameLess(Tail(a), Tail(b))
    ELSE Rank(Head(a)) < Rank(Head(b))

\* ---- str methods
RECURSIVE lstrip(_)
lstrip(s) == IF s # <<>> /\ Head(s) = " " THEN lstrip(Tail(s)) ELSE s

RECURSIVE rstrip(_)
rstrip(s) == IF s # <<>> /\ s[Len(s)] = " " THEN rstrip(SubSeq(s, 1, Len(s) - 1)) ELSE s

\* str.strip()
strip(s) == rstrip(lstrip(s))

\* str.isdigit()
isdigit(s) == s # <<>> /\ \A i \in 1..Len(s) : s[i] \in Digits

DigitValue(d) == IF d = "0" THEN 0 ELSE IF d = "1" THEN 1 ELSE IF d = "2" THEN 2 ELSE 3

\* int(text) of a text of digits
RECURSIVE int(_)
int(s) == IF s = <<>> THEN 0 ELSE 10 * int(SubSeq(s, 1, Len(s) - 1)) + DigitValue(s[Len(s)])

\* ---- dicts and tables (functions with a finite domain)
\* d.get(k, default)
GetOr(d, k, default) == IF k \in DOMAIN d THEN d[k] ELSE default

\* d[k] = v
Put(d, k, v) == [x \in (DOMAIN d) \cup {k} |-> IF x = k THEN v ELSE d[x]]

\* del d[k], guarded by "if k in d"
Del(d, k) == [x \in (DOMAIN d) \ {k} |-> d[x]]

\* rows of a table kept by a predicate
Range(s) == {s[i] : i \in DOMAIN s}

\* the orderings of a finite set of keys that an ORDER BY with the strict
\* order less (a set of pairs <<a, b>>, a before b) allows; ties, and a
\* missing ORDER BY, leave the order open
Orderings(keys, less) ==
    {s \in [1..Cardinality(keys) -> keys] :
        /\ \A i, j \in DOMAIN s : i # j => s[i] # s[j]
        /\ \A i, j \in DOMAIN s : i < j => <<s[j], s[i]>> \notin less}

VARIABLES
    users,          \* table users: user_id -> [notifications_enabled, is_banned]
    categories,     \* table categories: id -> name
    category_seq,   \* next value of the categories.id sequence
    products,       \* table products: id -> row
    product_seq,    \* next value of the products.id sequence
    user_state,     \* the global dict user_state: user_id -> dict
    ev,             \* the update being handled by the last handler run
    out,            \* what the last handler run sent and did
    events          \* number of updates handled

vars == <<users, categories, category_seq, products, product_seq, user_state, ev, out, events>>


\* The program state and the output of the handler run so far, as one record,
\* so that a handler is a function from record to record.
State == [users |-> users, categories |-> categories, category_seq |-> category_seq,
          products |-> products, product_seq |-> product_seq, user_state |-> user_state,
          out |-> [replies |-> <<>>, listed |-> <<>>, ops |-> {}, fanout |-> FALSE,
                   attempted |-> <<>>, delivered |-> {}, notice |-> <<>>,
                   inserted |-> 0, crashed |-> FALSE, step |-> None, ret |-> 0,
                   had_step |-> None]]

\* ---- the store

\* defaults of the users table: notifications_enabled TRUE, is_banned FALSE
NewUser == [notifications_enabled |-> TRUE, is_banned |-> FALSE]

is_user_banned_no_admin_bypass(S, user_id) ==
    IF user_id \in DOMAIN S.users THEN S.users[user_id].is_banned ELSE FALSE

is_user_banned(S, user_id) ==
    IF user_id = ADMIN_USER_ID THEN FALSE
    ELSE IF user_id \in DOMAIN S.users THEN S.users[user_id].is_banned
    ELSE FALSE

\* INSERT ... ON CONFLICT (user_id) DO NOTHING
ensure_user_exists(S, user_id) ==
    IF user_id \in DOMAIN S.users THEN S
    ELSE [S EXCEPT !.users = Put(@, user_id, NewUser)]

\* get_notification_status: S is the store afterwards (the row is inserted
\* when it is missing), ret the value returned
get_notification_status(S, user_id) ==
    IF user_id \in DOMAIN S.users
    THEN [S |-> S, ret |-> S.users[user_id].notifications_enabled]
    ELSE [S |-> [S EXCEPT !.users = Put(@, user_id, NewUser)], ret |-> TRUE]

\* toggle_notifications writing FALSE whatever the status read
toggle_notifications_always_off(S, user_id) ==
    LET S1 == get_notification_status(S, user_id).S
    IN [S |-> [S1 EXCEPT !.users[user_id].notifications_enabled = FALSE,
                         !.out.ops = @ \cup {"toggle_notifications"}],
        ret |-> FALSE]

toggle_notifications(S, user_id) ==
    LET got == get_notification_status(S, user_id)
        new_status == ~got.ret
        S1 == got.S
        row == IF user_id \in DOMAIN S1.users
               THEN [S1.users[user_id] EXCEPT !.notifications_enabled = new_status]
               ELSE [NewUser EXCEPT !.notifications_enabled = new_status]
    IN [S |-> [S1 EXCEPT !.users = Put(@, user_id, row),
                         !.out.ops = @ \cup {"toggle_notifications"}],
        ret |-> new_status]

\* get_notification_status when the store may be out of reach (read_up
\* FALSE): the except branch logs, returns True and leaves the store
get_notification_status_with_outage(S, user_id, read_up) ==
    IF read_up THEN get_notification_status(S, user_id) ELSE [S |-> S, ret |-> TRUE]

\* toggle_notifications when its read or its write may fail: a failed write
\* is logged and new_status is returned all the same
toggle_notifications_with_outage(S, user_id, read_up, write_up) ==
    IF read_up /\ write_up THEN toggle_notifications(S, user_id)
    ELSE LET got == get_notification_status_with_outage(S, user_id, read_up)
             new_status == ~got.ret
             S1 == got.S
             row == [GetOr(S1.users, user_id, NewUser) EXCEPT
                        !.notifications_enabled = new_status]
         IN [S |-> IF write_up
                   THEN [S1 EXCEPT !.users = Put(@, user_id, row),
                                   !.out.ops = @ \cup {"toggle_notifications"}]
                   ELSE [S1 EXCEPT !.out.ops = @ \cup {"toggle_notifications"}],
             ret |-> new_status]

\* a query without ORDER BY
NoOrder == {}

get_subscribers_with_author(S, exclude_user_id) ==
    Orderings({u \in DOMAIN S.users : S.users[u].notifications_enabled}, NoOrder)

\* the lists the query may return (it has no ORDER BY)
get_subscribers(S, exclude_user_id) ==
    Orderings({u \in DOMAIN S.users :
                  S.users[u].notifications_enabled /\ u # exclude_user_id}, NoOrder)

\* SELECT id, name FROM categories ORDER BY name (name is UNIQUE)
get_categories(S) ==
    LET ByName == {pr \in (DOMAIN S.categories) \X (DOMAIN S.categories) :
                      NameLess(S.categories[pr[1]], S.categories[pr[2]])}
        ids == CHOOSE s \in Orderings(DOMAIN S.categories, ByName) : TRUE
    IN [i \in DOMAIN ids |-> <<ids[i], S.categories[ids[i]]>>]

\* add_category without the test of the reserved names
add_category_without_reserved_check(S, name) ==
    LET known == {c \in DOMAIN S.categories : S.categories[c] = name}
        S1 == IF known # {}
              THEN [S EXCEPT !.category_seq = @ + 1]
              ELSE [S EXCEPT !.categories = Put(@, S.category_seq, name),
                             !.category_seq = @ + 1]
    IN [S |-> [S1 EXCEPT !.out.ops = @ \cup {"add_category"}],
        ret |-> CHOOSE c \in DOMAIN S1.categories : S1.categories[c] = name]

\* add_category without ON CONFLICT (name) DO NOTHING and without the UNIQUE
\* constraint: every call inserts a row
add_category_always_inserts(S, name) ==
    IF strip(name) \in {BTN_BACK, BTN_OTHER} THEN [S |-> S, ret |-> 0]
    ELSE [S |-> [S EXCEPT !.categories = Put(@, S.category_seq, name),
                          !.category_seq = @ + 1,
                          !.out.ops = @ \cup {"add_category"}],
          ret |-> S.category_seq]

\* add_category: ret is the id, 0 for None.  The id sequence advances on every
\* INSERT, also when ON CONFLICT (name) DO NOTHING drops the row.
add_category(S, name) ==
    IF strip(name) \in {BTN_BACK, BTN_OTHER} THEN [S |-> S, ret |-> 0]
    ELSE LET known == {c \in DOMAIN S.categories : S.categories[c] = name}
             S1 == IF known # {}
                   THEN [S EXCEPT !.category_seq = @ + 1]
                   ELSE [S EXCEPT !.categories = Put(@, S.category_seq, name),
                                  !.category_seq = @ + 1]
         IN [S |-> [S1 EXCEPT !.out.ops = @ \cup {"add_category"}],
             ret |-> CHOOSE c \in DOMAIN S1.categories : S1.categories[c] = name]

\* save_product on a table without REFERENCES categories(id)
save_product_without_foreign_key(S, user_id, user_name, category_id, product_name, rating, photo_file_id) ==
    [S EXCEPT !.products = Put(@, S.product_seq,
                     [user_id |-> user_id, user_name |-> user_name,
                      product_name |-> product_name, photo_file_id |-> photo_file_id,
                      rating |-> rating, created_at |-> S.product_seq,
                      category_id |-> category_id]),
              !.product_seq = @ + 1,
              !.out.ops = @ \cup {"save_product"},
              !.out.inserted = S.product_seq]

\* save_product: the INSERT fails (and is logged) when category_id references
\* no category; the id sequence advances either way.  created_at is the
\* position of the insert in the order of all inserts.
save_product(S, user_id, user_name, category_id, product_name, rating, photo_file_id) ==
    IF category_id \in DOMAIN S.categories
    THEN [S EXCEPT !.products = Put(@, S.product_seq,
                        [user_id |-> user_id, user_name |-> user_name,
                         product_name |-> product_name, photo_file_id |-> photo_file_id,
                         rating |-> rating, created_at |-> S.product_seq,
                         category_id |-> category_id]),
                   !.product_seq = @ + 1,
                   !.out.ops = @ \cup {"save_product"},
                   !.out.inserted = S.product_seq]
    ELSE [S EXCEPT !.product_seq = @ + 1, !.out.ops = @ \cup {"save_product"}]

\* ORDER BY created_at DESC
NewestFirst(S) ==
    {pr \in (DOMAIN S.products) \X (DOMAIN S.products) :
        S.products[pr[1]].created_at > S.products[pr[2]].created_at}

\* WHERE category_id = %s AND rating = %s ORDER BY created_at DESC
get_products_by_category_and_rating(S, category_id, rating) ==
    LET Newer == NewestFirst(S)
        ids == CHOOSE s \in Orderings({p \in DOMAIN S.products :
                      /\ S.products[p].category_id = category_id
                      /\ S.products[p].rating = rating}, Newer) : TRUE
    IN [i \in DOMAIN ids |-> [id |-> ids[i],
                              product_name |-> S.products[ids[i]].product_name,
                              created_at |-> S.products[ids[i]].created_at,
                              user_name |-> S.products[ids[i]].user_name,
                              photo_file_id |-> S.products[ids[i]].photo_file_id]]

\* the lists the query may return: ORDER BY c.name, p.product_name leaves the
\* order of products with the same category and name open
get_all_products_with_categories(S) ==
    LET joined == {p \in DOMAIN S.products : S.products[p].category_id \in DOMAIN S.categories}
        Before ==
            {pr \in joined \X joined :
                LET ca == S.categories[S.products[pr[1]].category_id]
                    cb == S.categories[S.products[pr[2]].category_id]
                IN \/ NameLess(ca, cb)
                   \/ /\ ca = cb
                      /\ NameLess(S.products[pr[1]].product_name,
                                  S.products[pr[2]].product_name)}
    IN {[i \in DOMAIN ids |-> <<ids[i], S.products[ids[i]].product_name,
                                S.categories[S.products[ids[i]].category_id],
                                S.products[ids[i]].created_at>>] :
            ids \in Orderings(joined, Before)}

\* the query without WHERE p.user_id = %s
get_user_products_of_anyone(S, user_id) ==
    LET Newer == NewestFirst(S)
        ids == CHOOSE s \in Orderings({p \in DOMAIN S.products :
                      S.products[p].category_id \in DOMAIN S.categories}, Newer) : TRUE
    IN [i \in DOMAIN ids |-> <<ids[i], S.products[ids[i]].product_name,
                               S.categories[S.products[ids[i]].category_id],
                               S.products[ids[i]].created_at,
                               S.products[ids[i]].photo_file_id>>]

\* WHERE p.user_id = %s ORDER BY p.created_at DESC
get_user_products(S, user_id) ==
    LET Newer == NewestFirst(S)
        ids == CHOOSE s \in Orderings({p \in DOMAIN S.products :
                      /\ S.products[p].user_id = user_id
                      /\ S.products[p].category_id \in DOMAIN S.categories}, Newer) : TRUE
    IN [i \in DOMAIN ids |-> <<ids[i], S.products[ids[i]].product_name,
                               S.categories[S.products[ids[i]].category_id],
                               S.products[ids[i]].created_at,
                               S.products[ids[i]].photo_file_id>>]

\* the lists get_all_users may return: one (user_id, name) per user,
\* ORDER BY u.user_id, the name one of the user_names of the user's products
get_all_users(S) ==
    LET ById == {pr \in (DOMAIN S.users) \X (DOMAIN S.users) : pr[1] < pr[2]}
        ids == CHOOSE s \in Orderings(DOMAIN S.users, ById) : TRUE
        names(u) == LET ns == {S.products[p].user_name :
                                  p \in {q \in DOMAIN S.products : S.products[q].user_id = u}}
                    IN IF ns = {} THEN {UNKNOWN} ELSE ns
    IN {l \in [DOMAIN ids -> UserIds \X {UNKNOWN, "Admin", "Ann"}] :
            \A i \in DOMAIN ids : l[i][1] = ids[i] /\ l[i][2] \in names(ids[i])}

\* UPDATE categories SET name: fails (and is logged) on the UNIQUE constraint
update_category_name(S, category_id, new_name) ==
    IF /\ category_id \in DOMAIN S.categories
       /\ \A c \in DOMAIN S.categories : c # category_id => S.categories[c] # new_name
    THEN [S EXCEPT !.categories[category_id] = new_name,
                   !.out.ops = @ \cup {"rename_category"}]
    ELSE [S EXCEPT !.out.ops = @ \cup {"rename_category"}]

\* move_product_to_category on a table whose created_at is set anew by every
\* UPDATE of the row
move_product_to_category_stamping_created_at(S, product_id, new_category_id) ==
    IF product_id \in DOMAIN S.products /\ new_category_id \in DOMAIN S.categories
    THEN [S EXCEPT !.products[product_id].category_id = new_category_id,
                   !.products[product_id].created_at = S.product_seq,
                   !.out.ops = @ \cup {"move_product"}]
    ELSE [S EXCEPT !.out.ops = @ \cup {"move_product"}]

\* UPDATE products SET category_id: fails (and is logged) on the foreign key
move_product_to_category(S, product_id, new_category_id) ==
    IF product_id \in DOMAIN S.products /\ new_category_id \in DOMAIN S.categories
    THEN [S EXCEPT !.products[product_id].category_id = new_category_id,
                   !.out.ops = @ \cup {"move_product"}]
    ELSE [S EXCEPT !.out.ops = @ \cup {"move_product"}]

delete_product(S, product_id) ==
    [S EXCEPT !.products = Del(@, product_id), !.out.ops = @ \cup {"delete_product"}]

\* clear_all_data without DELETE FROM categories
clear_all_data_keeping_categories(S) ==
    [S EXCEPT !.products = <<>>, !.out.ops = @ \cup {"clear_all"}]

\* DELETE FROM products; DELETE FROM categories; one commit
clear_all_data(S) ==
    [S EXCEPT !.products = <<>>, !.categories = <<>>, !.out.ops = @ \cup {"clear_all"}]


\* ---- what a handler does to the conversation table and the chat

\* await update.message.reply_text(m)
Reply(S, m) == [S EXCEPT !.out.replies = Append(@, m)]

\* get_main_menu(user_id) reads the notification status, which inserts the
\* users row when it is missing
get_main_menu(S, user_id) == get_notification_status(S, user_id).S

\* reply_text(m, reply_markup=get_main_menu(user_id))
ReplyMenu(S, user_id, m) == Reply(get_main_menu(S, user_id), m)

\* a handler end without "del user_state[user_id]"
ClearStateSkipped(S, user_id) == S

\* if user_id in user_state: del user_state[user_id]
ClearState(S, user_id) == [S EXCEPT !.user_state = Del(@, user_id)]

\* user_state[user_id] = d
SetState(S, user_id, d) == [S EXCEPT !.user_state = Put(@, user_id, d)]

\* user_state[user_id] = user_state.get(user_id, {}); user_state[user_id][k] = v
SetKey(S, user_id, k, v) ==
    [S EXCEPT !.user_state = Put(@, user_id, Put(GetOr(@, user_id, <<>>), k, v))]

CurrentStateOfAdmin(S, user_id) == GetOr(S.user_state, ADMIN_USER_ID, <<>>)

\* current_state = user_state.get(user_id, {})
CurrentState(S, user_id) == GetOr(S.user_state, user_id, <<>>)

\* current_state.get('step')
StepOf(d) == GetOr(d, "step", None)

\* "if 1 <= idx <= len(l)" after "if text.isdigit()"
InRange(text, l) == isdigit(text) /\ 1 <= int(text) /\ int(text) <= Len(l)

\* the two re-prompts of a numeric selection
NumberReprompt(S, text, invalid, enter) ==
    IF isdigit(text) THEN Reply(S, invalid) ELSE Reply(S, enter)

\* the deletion without DELETE FROM products WHERE user_id
delete_user_keeping_products(S, target_id) ==
    [S EXCEPT !.users = Del(@, target_id), !.out.ops = @ \cup {"delete_user"}]

\* DELETE FROM products WHERE user_id; DELETE FROM users WHERE user_id
delete_user(S, target_id) ==
    [S EXCEPT !.products = [p \in {q \in DOMAIN @ : @[q].user_id # target_id} |-> @[p]],
              !.users = Del(@, target_id),
              !.out.ops = @ \cup {"delete_user"}]

\* the statement replacing the row (notifications_enabled back at its default)
set_banned_replacing_row(S, target_id, flag) ==
    [S EXCEPT !.users = Put(@, target_id, [NewUser EXCEPT !.is_banned = flag]),
              !.out.ops = @ \cup {IF flag THEN "ban_user" ELSE "unban_user"}]

\* INSERT INTO users (user_id, is_banned) ... ON CONFLICT DO UPDATE SET is_banned
set_banned(S, target_id, flag) ==
    [S EXCEPT !.users = Put(@, target_id,
                  [GetOr(@, target_id, NewUser) EXCEPT !.is_banned = flag]),
              !.out.ops = @ \cup {IF flag THEN "ban_user" ELSE "unban_user"}]

selecting_user_to_delete(S, user_id, text, current_state) ==
    LET l == GetOr(current_state, "users", <<>>)
    IN {ClearState(IF InRange(text, l)
                   THEN Reply(delete_user(S, l[int(text)][1]), "user_deleted")
                   ELSE NumberReprompt(S, text, "invalid_number", "enter_user_number"),
                   user_id)}

selecting_category_to_rename(S, user_id, text, current_state) ==
    LET l == get_categories(S)
    IN {IF InRange(text, l)
        THEN SetState(Reply(S, "enter_new_name"), user_id,
                      [step |-> "entering_new_category_name",
                       category_id |-> l[int(text)][1]])
        ELSE NumberReprompt(S, text, "invalid_category_number", "enter_category_number")}

selecting_user_to_ban(S, user_id, text, current_state) ==
    LET l == GetOr(current_state, "users", <<>>)
    IN {ClearState(IF InRange(text, l)
                   THEN Reply(set_banned(S, l[int(text)][1], TRUE), "user_banned")
                   ELSE NumberReprompt(S, text, "invalid_number", "enter_user_number"),
                   user_id)}

selecting_user_to_unban(S, user_id, text, current_state) ==
    LET l == GetOr(current_state, "users", <<>>)
    IN {ClearState(IF InRange(text, l)
                   THEN Reply(set_banned(S, l[int(text)][1], FALSE), "user_unbanned")
                   ELSE NumberReprompt(S, text, "invalid_number", "enter_user_number"),
                   user_id)}

entering_new_category_name(S, user_id, text, current_state) ==
    LET new_name == strip(text)
    IN {ClearState(IF new_name # <<>>
                   THEN Reply(update_category_name(S, current_state["category_id"], new_name),
                              "category_renamed")
                   ELSE Reply(S, "name_empty"),
                   user_id)}

selecting_product_to_move(S, user_id, text, current_state) ==
    LET l == GetOr(current_state, "products", <<>>)
        cat_list == get_categories(S)
    IN {IF InRange(text, l)
        THEN IF cat_list = <<>>
             THEN ClearState(Reply(S, "no_categories_to_move"), user_id)
             ELSE SetState(Reply(S, "choose_new_category"), user_id,
                           [step |-> "selecting_new_category_for_product",
                            product_id |-> l[int(text)][1],
                            categories |-> cat_list])
        ELSE NumberReprompt(S, text, "invalid_product_number", "enter_product_number")}

selecting_product_to_delete(S, user_id, text, current_state) ==
    LET l == GetOr(current_state, "products", <<>>)
    IN {ClearState(IF InRange(text, l)
                   THEN Reply(delete_product(S, l[int(text)][1]), "product_deleted")
                   ELSE NumberReprompt(S, text, "invalid_product_number", "enter_product_number"),
                   user_id)}

selecting_new_category_for_product(S, user_id, text, current_state) ==
    LET l == GetOr(current_state, "categories", <<>>)
    IN {ClearState(IF InRange(text, l)
                   THEN Reply(move_product_to_category(S, current_state["product_id"],
                                                       l[int(text)][1]), "product_moved")
                   ELSE NumberReprompt(S, text, "invalid_category_number", "enter_category_number"),
                   user_id)}

BackToMenu(S, user_id) == ReplyMenu(ClearState(S, user_id), user_id, "choose_action")

selecting_product_to_edit(S, user_id, text, current_state) ==
    LET l == GetOr(current_state, "products", <<>>)
    IN {IF text = BTN_BACK THEN BackToMenu(S, user_id)
        ELSE IF InRange(text, l)
        THEN SetState(Reply(S, "what_to_change"), user_id,
                      [step |-> "choosing_edit_field", product_id |-> l[int(text)][1]])
        ELSE NumberReprompt(S, text, "invalid_product_number", "enter_product_number")}

choosing_edit_field(S, user_id, text, current_state) ==
    LET product_id == GetOr(current_state, "product_id", 0)
    IN {IF text = BTN_BACK THEN BackToMenu(S, user_id)
        ELSE IF text = EDIT_NAME
        THEN SetState(Reply(S, "enter_new_product_name"), user_id,
                      [step |-> "editing_product_name", product_id |-> product_id])
        ELSE IF text = EDIT_PHOTO
        THEN SetState(Reply(S, "send_new_photo"), user_id,
                      [step |-> "editing_product_photo", product_id |-> product_id])
        ELSE Reply(S, "choose_an_action")}

\* UPDATE products SET product_name = %s WHERE id = %s
update_product_name(S, product_id, name) ==
    IF product_id \in DOMAIN S.products
    THEN [S EXCEPT !.products[product_id].product_name = name,
                   !.out.ops = @ \cup {"edit_product_name"}]
    ELSE [S EXCEPT !.out.ops = @ \cup {"edit_product_name"}]

editing_product_name(S, user_id, text, current_state) ==
    LET product_id == GetOr(current_state, "product_id", 0)
    IN {IF text = BTN_BACK THEN BackToMenu(S, user_id)
        ELSE ClearState(Reply(update_product_name(S, product_id, strip(text)),
                              "product_name_updated"), user_id)}

\* adding_category without the two assignments to user_state[user_id]
adding_category_keeping_step(S, user_id, text, current_state) ==
    {IF text = BTN_BACK THEN BackToMenu(S, user_id)
     ELSE IF strip(text) # <<>>
     THEN LET added == add_category(S, strip(text))
          IN IF added.ret = 0
             THEN Reply(added.S, "invalid_category_name")
             ELSE Reply(added.S, "category_list")
     ELSE Reply(S, "category_name_empty")}

adding_category(S, user_id, text, current_state) ==
    {IF text = BTN_BACK THEN BackToMenu(S, user_id)
     ELSE IF strip(text) # <<>>
     THEN LET added == add_category(S, strip(text))
          IN IF added.ret = 0
             THEN Reply(added.S, "invalid_category_name")
             ELSE Reply(SetKey(SetKey(added.S, user_id, "step", "choosing_category_for_add"),
                               user_id, "mode", "add"), "category_list")
     ELSE Reply(S, "category_name_empty")}

\* the messages of the product list in view mode: one per product, with the
\* inline "show photo" button when the product has a photo
ListProducts(S, l) ==
    [S EXCEPT !.out.listed = [i \in DOMAIN l |->
        [id |-> l[i].id, photo_button |-> l[i].photo_file_id # None]]]

\* choosing_category with the branch of "Другое" taken in view mode too
choosing_category_other_in_view(S, user_id, text, current_state) ==
    LET l == get_categories(S)
        mode == current_state["mode"]
    IN {IF text = BTN_BACK THEN BackToMenu(S, user_id)
        ELSE IF isdigit(text)
        THEN IF 1 <= int(text) /\ int(text) <= Len(l)
             THEN LET selected_category_id == l[int(text)][1]
                  IN IF mode = "add"
                     THEN Reply(SetKey(SetKey(S, user_id, "category_id", selected_category_id),
                                       user_id, "step", "awaiting_product_name"),
                                "attach_photo_and_name")
                     ELSE IF mode \in {"recommend", "avoid"}
                     THEN LET found == get_products_by_category_and_rating(S,
                                          selected_category_id,
                                          IF mode = "recommend" THEN RATING_GOOD ELSE RATING_BAD)
                              S1 == ClearState(S, user_id)
                          IN ReplyMenu(IF found # <<>> THEN ListProducts(S1, found)
                                       ELSE Reply(S1, "no_items_in_category"),
                                       user_id, "choose_action")
                     ELSE S
             ELSE Reply(S, "invalid_category_number_retry")
        ELSE IF text = BTN_OTHER
        THEN SetState(Reply(S, "enter_category_name"), user_id, [step |-> "adding_category"])
        ELSE Reply(S, "choose_number_other_or_back")}

choosing_category(S, user_id, text, current_state) ==
    LET l == get_categories(S)
        mode == current_state["mode"]
    IN {IF text = BTN_BACK THEN BackToMenu(S, user_id)
        ELSE IF isdigit(text)
        THEN IF 1 <= int(text) /\ int(text) <= Len(l)
             THEN LET selected_category_id == l[int(text)][1]
                  IN IF mode = "add"
                     THEN Reply(SetKey(SetKey(S, user_id, "category_id", selected_category_id),
                                       user_id, "step", "awaiting_product_name"),
                                "attach_photo_and_name")
                     ELSE IF mode \in {"recommend", "avoid"}
                     THEN LET found == get_products_by_category_and_rating(S,
                                          selected_category_id,
                                          IF mode = "recommend" THEN RATING_GOOD ELSE RATING_BAD)
                              S1 == ClearState(S, user_id)
                          IN ReplyMenu(IF found # <<>> THEN ListProducts(S1, found)
                                       ELSE Reply(S1, "no_items_in_category"),
                                       user_id, "choose_action")
                     ELSE S
             ELSE Reply(S, "invalid_category_number_retry")
        ELSE IF text = BTN_OTHER /\ current_state["step"] = "choosing_category_for_add"
        THEN SetState(Reply(S, "enter_category_name"), user_id, [step |-> "adding_category"])
        ELSE Reply(S, "choose_number_other_or_back")}

awaiting_product_name(S, user_id, text, current_state) ==
    {IF text = BTN_BACK THEN BackToMenu(S, user_id)
     ELSE LET S1 == IF GetOr(current_state, "photo_file_id", None) # None
                    THEN SetKey(S, user_id, "product_name", text)
                    ELSE SetKey(SetKey(S, user_id, "product_name", text),
                                user_id, "photo_file_id", None)
          IN SetKey(Reply(S1, "choose_rating"), user_id, "step", "awaiting_rating")}

\* update.message.photo[-1] of a text message: IndexError, the handler ends
\* with nothing sent and the conversation table as it was
editing_product_photo(S, user_id, text, current_state) ==
    {IF text = BTN_BACK THEN BackToMenu(S, user_id)
     ELSE [S EXCEPT !.out.crashed = TRUE]}

FanOutStopAtFailure(S, order, failed) ==
    LET bad == {i \in DOMAIN order : order[i] \in failed}
        last == IF bad = {} THEN Len(order) ELSE CHOOSE i \in bad : \A j \in bad : i <= j
    IN [S EXCEPT !.out.fanout = TRUE,
                 !.out.attempted = SubSeq(order, 1, last),
                 !.out.delivered = Range(SubSeq(order, 1, last)) \ failed]

\* for sub_id in subscribers: try: send_message(...) except Exception: log
\* order: the subscribers as listed; failed: those whose delivery raises
FanOut(S, order, failed) ==
    [S EXCEPT !.out.fanout = TRUE,
              !.out.attempted = order,
              !.out.delivered = Range(order) \ failed]

awaiting_rating(S, user_id, text, current_state) ==
    IF text = BTN_BACK THEN {BackToMenu(S, user_id)}
    ELSE IF text \in {RATING_GOOD, RATING_BAD}
    THEN LET product_name == GetOr(current_state, "product_name", <<UNKNOWN>>)
             category_id == GetOr(current_state, "category_id", 0)
             user_name == IF full_name[user_id] # "" THEN full_name[user_id] ELSE UNKNOWN
             photo_file_id == GetOr(current_state, "photo_file_id", None)
         IN IF category_id = 0
            THEN {ClearState(Reply(S, "error_no_category"), user_id)}
            ELSE LET S1 == save_product(S, user_id, user_name, category_id, product_name,
                                        text, photo_file_id)
                     category_name == IF category_id \in DOMAIN S1.categories
                                      THEN S1.categories[category_id] ELSE <<UNKNOWN>>
                     S2 == [S1 EXCEPT !.out.notice = <<category_name, product_name, text>>]
                 IN UNION {{ClearState(ReplyMenu(FanOut(S2, order, failed), user_id,
                                                 "product_saved"), user_id) :
                               failed \in SUBSET Range(order)} :
                           order \in get_subscribers(S2, user_id)}
    ELSE {ClearState(Reply(S, "choose_rating_or_back"), user_id)}


\* "Обработка главного меню": no dialog step is active
main_menu(S, user_id, text) ==
    {IF text = LENA THEN ReplyMenu(S, user_id, "lena")
     ELSE IF text = BTN_HELP
     THEN IF is_user_banned(S, user_id) THEN Reply(S, "access_denied")
          ELSE ReplyMenu(S, user_id, "help_user")
     ELSE IF text = BTN_ADD
     THEN Reply(SetState(S, user_id, [step |-> "choosing_category_for_add", mode |-> "add"]),
                "category_list")
     ELSE IF text = BTN_BUY
     THEN Reply(SetState(S, user_id, [step |-> "choosing_category_for_view",
                                      mode |-> "recommend"]), "category_list")
     ELSE IF text = BTN_AVOID
     THEN Reply(SetState(S, user_id, [step |-> "choosing_category_for_view",
                                      mode |-> "avoid"]), "category_list")
     ELSE ReplyMenu(S, user_id, "choose_action")}

main_menu_triggers == {BTN_ADD, BTN_BUY, BTN_AVOID, BELL_ON, BELL_OFF, LENA}

admin_steps == {"selecting_user_to_delete", "selecting_user_to_ban", "selecting_user_to_unban"}

\* the step blocks of handle_text, in the order of the source
dispatch(S, user_id, text, current_state) ==
    LET step == StepOf(current_state)
    IN IF step \in admin_steps /\ text = BTN_BACK THEN {BackToMenu(S, user_id)}
       ELSE IF step = "selecting_user_to_delete"
       THEN selecting_user_to_delete(S, user_id, text, current_state)
       ELSE IF step = "selecting_category_to_rename"
       THEN selecting_category_to_rename(S, user_id, text, current_state)
       ELSE IF step = "selecting_user_to_ban"
       THEN selecting_user_to_ban(S, user_id, text, current_state)
       ELSE IF step = "selecting_user_to_unban"
       THEN selecting_user_to_unban(S, user_id, text, current_state)
       ELSE IF step = "entering_new_category_name"
       THEN entering_new_category_name(S, user_id, text, current_state)
       ELSE IF step = "selecting_product_to_move"
       THEN selecting_product_to_move(S, user_id, text, current_state)
       ELSE IF step = "selecting_product_to_delete"
       THEN selecting_product_to_delete(S, user_id, text, current_state)
       ELSE IF step = "selecting_new_category_for_product"
       THEN selecting_new_category_for_product(S, user_id, text, current_state)
       ELSE IF step = "selecting_product_to_edit"
       THEN selecting_product_to_edit(S, user_id, text, current_state)
       ELSE IF step = "choosing_edit_field"
       THEN choosing_edit_field(S, user_id, text, current_state)
       ELSE IF step = "editing_product_name"
       THEN editing_product_name(S, user_id, text, current_state)
       ELSE IF step = "adding_category"
       THEN adding_category(S, user_id, text, current_state)
       ELSE IF step \in {"choosing_category_for_add", "choosing_category_for_view"}
       THEN choosing_category(S, user_id, text, current_state)
       ELSE IF step = "awaiting_product_name"
       THEN awaiting_product_name(S, user_id, text, current_state)
       ELSE IF step = "editing_product_photo"
       THEN editing_product_photo(S, user_id, text, current_state)
       ELSE IF step = "awaiting_rating"
       THEN awaiting_rating(S, user_id, text, current_state)
       ELSE main_menu(S, user_id, text)

\* handle_text without "if text in main_menu_triggers: del user_state[user_id]"
handle_text_without_reset(S, user_id, raw) ==
    LET text == strip(raw)
    IN IF raw = <<>> THEN {S}
       ELSE IF is_user_banned(S, user_id) /\ user_id # ADMIN_USER_ID
       THEN {Reply(S, "access_denied")}
       ELSE LET S1 == ensure_user_exists(S, user_id)
                current_state == CurrentState(S1, user_id)
                S3 == [S1 EXCEPT !.out.step = StepOf(current_state),
                                 !.out.had_step = StepOf(GetOr(S.user_state, user_id, <<>>))]
            IN IF text \in {BELL_ON, BELL_OFF}
               THEN LET toggled == toggle_notifications(S3, user_id)
                    IN {ReplyMenu(toggled.S, user_id,
                                  IF toggled.ret THEN "notifications_on"
                                  ELSE "notifications_off")}
               ELSE dispatch(S3, user_id, text, current_state)

\* handle_text: the results the handler may end with for the message text raw.
\* out.had_step is the step of the user's entry when the message arrived,
\* out.step the step the handler dispatches on.
handle_text(S, user_id, raw) ==
    LET text == strip(raw)
    IN IF raw = <<>> THEN {S}
       ELSE IF is_user_banned(S, user_id) /\ user_id # ADMIN_USER_ID
       THEN {Reply(S, "access_denied")}
       ELSE LET S1 == ensure_user_exists(S, user_id)
                S2 == IF text \in main_menu_triggers THEN ClearState(S1, user_id) ELSE S1
                current_state == CurrentState(S2, user_id)
                S3 == [S2 EXCEPT !.out.step = StepOf(current_state),
                                 !.out.had_step = StepOf(GetOr(S.user_state, user_id, <<>>))]
            IN IF text \in {BELL_ON, BELL_OFF}
               THEN LET toggled == toggle_notifications(S3, user_id)
                    IN {ReplyMenu(toggled.S, user_id,
                                  IF toggled.ret THEN "notifications_on"
                                  ELSE "notifications_off")}
               ELSE dispatch(S3, user_id, text, current_state)

\* handle_photo without the branch "if not update.message.caption"
handle_photo_without_caption_branch(S, user_id, photo, caption) ==
    IF is_user_banned(S, user_id) /\ user_id # ADMIN_USER_ID
    THEN {Reply(S, "access_denied")}
    ELSE LET S1 == ensure_user_exists(S, user_id)
             current_state == CurrentState(S1, user_id)
             S2 == [S1 EXCEPT !.out.step = StepOf(current_state)]
         IN {IF StepOf(current_state) = "awaiting_product_name"
             THEN Reply(SetKey(SetKey(SetKey(S2, user_id, "product_name", strip(caption)),
                                      user_id, "photo_file_id", photo),
                               user_id, "step", "awaiting_rating"), "choose_rating")
             ELSE Reply(S2, "use_menu_buttons")}

\* handle_photo without the test of the step: the photo is taken in any step
handle_photo_in_any_step(S, user_id, photo, caption) ==
    IF is_user_banned(S, user_id) /\ user_id # ADMIN_USER_ID
    THEN {Reply(S, "access_denied")}
    ELSE LET S1 == ensure_user_exists(S, user_id)
             current_state == CurrentState(S1, user_id)
             S2 == [S1 EXCEPT !.out.step = StepOf(current_state)]
         IN {IF caption = <<>>
             THEN Reply(SetKey(S2, user_id, "photo_file_id", photo), "please_name_product")
             ELSE Reply(SetKey(SetKey(SetKey(S2, user_id, "product_name", strip(caption)),
                                      user_id, "photo_file_id", photo),
                               user_id, "step", "awaiting_rating"), "choose_rating")}

\* handle_photo: caption <<>> is a photo without caption
handle_photo(S, user_id, photo, caption) ==
    IF is_user_banned(S, user_id) /\ user_id # ADMIN_USER_ID
    THEN {Reply(S, "access_denied")}
    ELSE LET S1 == ensure_user_exists(S, user_id)
             current_state == CurrentState(S1, user_id)
             S2 == [S1 EXCEPT !.out.step = StepOf(current_state)]
         IN {IF StepOf(current_state) = "awaiting_product_name"
             THEN IF caption = <<>>
                  THEN Reply(SetKey(S2, user_id, "photo_file_id", photo), "please_name_product")
                  ELSE Reply(SetKey(SetKey(SetKey(S2, user_id, "product_name", strip(caption)),
                                           user_id, "photo_file_id", photo),
                                    user_id, "step", "awaiting_rating"), "choose_rating")
             ELSE Reply(S2, "use_menu_buttons")}


\* ---- command handlers

AdminOnlyDisabled(user_id) == TRUE

\* "if update.effective_user.id != ADMIN_USER_ID: ... return" lets these pass
AdminOnly(user_id) == user_id = ADMIN_USER_ID

\* @banned_user_check: wrapped is what the decorated handler ends with when it runs
banned_user_check(S, user_id, wrapped) ==
    IF is_user_banned(S, user_id) THEN {Reply(S, "access_denied")} ELSE wrapped

start(S, user_id) == {ReplyMenu(ensure_user_exists(S, user_id), user_id, "hello")}

help_command(S, user_id) == {Reply(S, "admin_help")}

clear_all_command(S, user_id) ==
    {IF ~AdminOnly(user_id) THEN Reply(S, "access_denied")
     ELSE Reply(clear_all_data(S), "database_cleared")}

change_cat_command(S, user_id) ==
    {IF ~AdminOnly(user_id) THEN Reply(S, "access_denied")
     ELSE IF get_categories(S) = <<>> THEN Reply(S, "no_categories_to_edit")
     ELSE SetState(Reply(S, "choose_category_to_rename"), user_id,
                   [step |-> "selecting_category_to_rename"])}

change_list_command(S, user_id) ==
    IF ~AdminOnly(user_id) THEN {Reply(S, "access_denied")}
    ELSE {IF l = <<>> THEN Reply(S, "no_products_to_move")
          ELSE SetState(Reply(S, "choose_product_to_move"), user_id,
                        [step |-> "selecting_product_to_move", products |-> l]) :
             l \in get_all_products_with_categories(S)}

del_position_command(S, user_id) ==
    IF ~AdminOnly(user_id) THEN {Reply(S, "access_denied")}
    ELSE {IF l = <<>> THEN Reply(S, "no_products_to_delete")
          ELSE SetState(Reply(S, "choose_product_to_delete"), user_id,
                        [step |-> "selecting_product_to_delete", products |-> l]) :
             l \in get_all_products_with_categories(S)}

del_user_command(S, user_id) ==
    IF ~AdminOnly(user_id) THEN {Reply(S, "access_denied")}
    ELSE {IF l = <<>> THEN Reply(S, "no_users")
          ELSE SetState(Reply(S, "choose_user_to_delete"), user_id,
                        [step |-> "selecting_user_to_delete", users |-> l]) :
             l \in get_all_users(S)}

ban_user_command(S, user_id) ==
    IF ~AdminOnly(user_id) THEN {Reply(S, "access_denied")}
    ELSE {IF l = <<>> THEN Reply(S, "no_users")
          ELSE SetState(Reply(S, "choose_user_to_ban"), user_id,
                        [step |-> "selecting_user_to_ban", users |-> l]) :
             l \in get_all_users(S)}

\* the lists unban_user_command may build: the banned ids in the order the
\* query returns them (it has no ORDER BY), each with the user_name of one of
\* the user's products (LIMIT 1)
banned_users(S) ==
    LET names(u) == LET ns == {S.products[p].user_name :
                                  p \in {q \in DOMAIN S.products : S.products[q].user_id = u}}
                    IN IF ns = {} THEN {UNKNOWN} ELSE ns
    IN UNION {{l \in [DOMAIN ids -> UserIds \X {UNKNOWN, "Admin", "Ann"}] :
                  \A i \in DOMAIN ids : l[i][1] = ids[i] /\ l[i][2] \in names(ids[i])} :
              ids \in Orderings({u \in DOMAIN S.users : S.users[u].is_banned}, NoOrder)}

unban_user_command(S, user_id) ==
    IF ~AdminOnly(user_id) THEN {Reply(S, "access_denied")}
    ELSE {IF l = <<>> THEN Reply(S, "no_banned_users")
          ELSE SetState(Reply(S, "choose_user_to_unban"), user_id,
                        [step |-> "selecting_user_to_unban", users |-> l]) :
             l \in banned_users(S)}

\* registered without @banned_user_check
edit_product_command(S, user_id) ==
    LET l == get_user_products(S, user_id)
    IN {IF l = <<>> THEN Reply(S, "you_have_no_products")
        ELSE SetState(Reply(S, "choose_product_to_edit"), user_id,
                      [step |-> "selecting_product_to_edit", products |-> l])}

\* show_photo_callback for the button of product product_id; send_photo may
\* raise TelegramError
show_photo_callback(S, user_id, product_id) ==
    IF \/ product_id \notin DOMAIN S.products
       \/ S.products[product_id].category_id \notin DOMAIN S.categories
       \/ S.products[product_id].photo_file_id = None
    THEN {Reply(S, "photo_not_found")}
    ELSE {Reply(S, "photo"), Reply(S, "photo_load_failed")}

Commands == {"start", "help", "clear_all", "change_cat", "change_list", "del_position",
             "del_user", "ban_user", "unban_user", "edit_product"}

\* app.add_handler(CommandHandler(...)) of main()
command(S, user_id, cmd) ==
    IF cmd = "start" THEN banned_user_check(S, user_id, start(S, user_id))
    ELSE IF cmd = "help" THEN banned_user_check(S, user_id, help_command(S, user_id))
    ELSE IF cmd = "clear_all" THEN banned_user_check(S, user_id, clear_all_command(S, user_id))
    ELSE IF cmd = "change_cat" THEN banned_user_check(S, user_id, change_cat_command(S, user_id))
    ELSE IF cmd = "change_list" THEN banned_user_check(S, user_id, change_list_command(S, user_id))
    ELSE IF cmd = "del_position" THEN banned_user_check(S, user_id, del_position_command(S, user_id))
    ELSE IF cmd = "del_user" THEN banned_user_check(S, user_id, del_user_command(S, user_id))
    ELSE IF cmd = "ban_user" THEN banned_user_check(S, user_id, ban_user_command(S, user_id))
    ELSE IF cmd = "unban_user" THEN banned_user_check(S, user_id, unban_user_command(S, user_id))
    ELSE edit_product_command(S, user_id)

\* ---- the updates

NoEvent == [user |-> ADMIN_USER_ID, kind |-> "none", text |-> <<>>, photo |-> None,
            cmd |-> None, product_id |-> 0]

\* a text message (filters.TEXT & ~filters.COMMAND)
T(u, raw) == [NoEvent EXCEPT !.user = u, !.kind = "text", !.text = raw]

\* a photo message (filters.PHOTO); caption <<>> is no caption
P(u, photo, caption) == [NoEvent EXCEPT !.user = u, !.kind = "photo", !.text = caption,
                                        !.photo = photo]

\* a command message
C(u, cmd) == [NoEvent EXCEPT !.user = u, !.kind = "command", !.cmd = cmd]

\* a press of the inline "show photo" button of a product
B(u, product_id) == [NoEvent EXCEPT !.user = u, !.kind = "callback", !.cmd = "show_photo",
                                    !.product_id = product_id]

\* the handlers main() registers: the results the handler of update e may end with
handle(S, e) ==
    IF e.kind = "text" THEN handle_text(S, e.user, e.text)
    ELSE IF e.kind = "photo" THEN handle_photo(S, e.user, e.photo, e.text)
    ELSE IF e.kind = "command" THEN command(S, e.user, e.cmd)
    ELSE show_photo_callback(S, e.user, e.product_id)

Texts == {<<"1">>, <<"2">>, <<"3">>, <<"A">>, <<"B">>, <<" ">>, <<" ", "A">>,
          BTN_BACK, BTN_OTHER, BTN_ADD, BTN_BUY, BTN_AVOID, BELL_ON, BELL_OFF, LENA,
          BTN_HELP, RATING_GOOD, RATING_BAD, EDIT_NAME, EDIT_PHOTO}

Photos == {"f1", "f2"}

Captions == {<<>>, <<"A">>, <<" ">>}

\* every update of the model
AnyEvents ==
    UNION {{T(u, raw) : raw \in Texts}
           \cup {P(u, photo, caption) : photo \in Photos, caption \in Captions}
           \cup {C(u, cmd) : cmd \in Commands}
           \cup {B(u, product_id) : product_id \in 1..MaxProductId} : u \in UserIds}

\* ---- the state machine

\* The process starts with an empty user_state (bot.py:310) on a store left
\* by earlier runs: all three users known, category "A"; user 2 may have
\* notifications off, user 1 may have a product with a photo, and user 2 may
\* be banned.
InitStore(n2, p1, b2) ==
    [users |-> [u \in UserIds |-> [notifications_enabled |-> (u # 2) \/ n2,
                                   is_banned |-> (u = 2) /\ b2]],
     categories |-> <<<<"A">>>>,
     category_seq |-> 2,
     products |-> IF p1 THEN <<[user_id |-> 1, user_name |-> "Ann", product_name |-> <<"B">>,
                                photo_file_id |-> "f1", rating |-> RATING_GOOD,
                                created_at |-> 1, category_id |-> 1]>>
                  ELSE <<>>,
     product_seq |-> IF p1 THEN 2 ELSE 1]

InitStores == {InitStore(TRUE, FALSE, FALSE), InitStore(FALSE, FALSE, FALSE),
               InitStore(TRUE, TRUE, FALSE), InitStore(FALSE, TRUE, TRUE)}

Init ==
    /\ \E s \in InitStores :
          /\ users = s.users
          /\ categories = s.categories
          /\ category_seq = s.category_seq
          /\ products = s.products
          /\ product_seq = s.product_seq
    /\ user_state = <<>>
    /\ ev = NoEvent
    /\ out = State.out
    /\ events = 0

\* update e is handled, as one of at most n updates of the run
Deliver(e, n) ==
    /\ events < n
    /\ \E R \in handle(State, e) :
        /\ R.category_seq <= MaxCategoryId + 1
        /\ R.product_seq <= MaxProductId + 1
        /\ users' = R.users
        /\ categories' = R.categories
        /\ category_seq' = R.category_seq
        /\ products' = R.products
        /\ product_seq' = R.product_seq
        /\ user_state' = R.user_state
        /\ out' = R.out
        /\ ev' = e
        /\ events' = events + 1

TextMessage(E, n) == \E e \in {x \in E : x.kind = "text"} : Deliver(e, n)

PhotoMessage(E, n) == \E e \in {x \in E : x.kind = "photo"} : Deliver(e, n)

Command(E, n) == \E e \in {x \in E : x.kind = "command"} : Deliver(e, n)

Callback(E, n) == \E e \in {x \in E : x.kind = "callback"} : Deliver(e, n)

\* any user sends any update
Next ==
    \/ TextMessage(AnyEvents, MaxAnyEvents)
    \/ PhotoMessage(AnyEvents, MaxAnyEvents)
    \/ Command(AnyEvents, MaxAnyEvents)
    \/ Callback(AnyEvents, MaxAnyEvents)

Spec == Init /\ [][Next]_vars

\* Scenario "add": user 1 goes through the add dialog, with or without a
\* photo, while the administrator may clear the store and users 0 and 2 may
\* toggle their notifications.
AddEvents ==
    {T(1, BTN_ADD), T(1, <<"1">>), T(1, <<"A">>), T(1, RATING_GOOD), T(1, RATING_BAD),
     P(1, "f1", <<>>), P(1, "f2", <<"A">>),
     C(0, "clear_all"), T(0, BELL_ON), T(2, BELL_OFF)}

NextAdd ==
    \/ TextMessage(AddEvents, MaxEvents)
    \/ PhotoMessage(AddEvents, MaxEvents)
    \/ Command(AddEvents, MaxEvents)

SpecAdd == Init /\ [][NextAdd]_vars

\* Scenario "ban": the administrator bans, unbans and deletes users through
\* the dialogs while users 1 and 2 send updates of every kind.  Nobody is
\* banned when the process starts.
BanEvents ==
    {C(0, "ban_user"), C(0, "unban_user"), C(0, "del_user"), C(0, "start"),
     T(0, <<"1">>), T(0, <<"2">>), T(0, <<"3">>), T(0, BTN_BACK),
     T(1, BTN_ADD), C(1, "start"), C(1, "edit_product"), P(1, "f1", <<"A">>), B(1, 1),
     T(2, BTN_ADD), C(2, "start")}

InitBan ==
    /\ Init
    /\ \A u \in DOMAIN users : ~users[u].is_banned

NextBan ==
    \/ TextMessage(BanEvents, MaxEvents)
    \/ PhotoMessage(BanEvents, MaxEvents)
    \/ Command(BanEvents, MaxEvents)
    \/ Callback(BanEvents, MaxEvents)

SpecBan == InitBan /\ [][NextBan]_vars

\* Scenario "admin": user 1 sends every administrator command and answers
\* as in the dialogs, while the administrator renames a category and moves a
\* product.
AdminEvents ==
    {C(1, "clear_all"), C(1, "change_cat"), C(1, "change_list"), C(1, "del_position"),
     C(1, "del_user"), C(1, "ban_user"), C(1, "unban_user"), T(1, <<"1">>), T(1, <<"B">>),
     C(0, "change_cat"), C(0, "change_list"), T(0, <<"1">>), T(0, <<"B">>)}

NextAdmin ==
    \/ TextMessage(AdminEvents, MaxEvents)
    \/ Command(AdminEvents, MaxEvents)

SpecAdmin == Init /\ [][NextAdmin]_vars

\* Scenario "dialogs": the administrator, user 1 and user 2 are in dialogs of
\* their own at the same time.
DialogEvents ==
    {C(0, "change_cat"), C(0, "ban_user"), C(0, "change_list"),
     T(0, <<"1">>), T(0, <<"B">>), T(0, BTN_BACK),
     T(1, BTN_ADD), T(1, BTN_BUY), T(1, <<"1">>), T(1, <<"A">>), T(1, BTN_BACK),
     T(1, RATING_GOOD), C(1, "edit_product"), P(1, "f1", <<"A">>),
     T(2, BTN_ADD), T(2, <<"1">>)}

NextDialogs ==
    \/ TextMessage(DialogEvents, MaxEvents)
    \/ PhotoMessage(DialogEvents, MaxEvents)
    \/ Command(DialogEvents, MaxEvents)

SpecDialogs == Init /\ [][NextDialogs]_vars

\* Scenario "edit": users 1 and 2 each own a product and go through the
\* edit dialog while the administrator deletes a product or clears the store.
EditEvents ==
    {C(1, "edit_product"), T(1, <<"1">>), T(1, EDIT_NAME), T(1, EDIT_PHOTO), T(1, <<"A">>),
     T(1, <<" ">>), P(1, "f2", <<>>), P(1, "f2", <<"A">>),
     C(2, "edit_product"), T(2, <<"1">>), T(2, EDIT_NAME), T(2, <<"A">>),
     C(0, "del_position"), T(0, <<"1">>), C(0, "clear_all")}

InitEdit ==
    /\ users = [u \in UserIds |-> NewUser]
    /\ categories = <<<<"A">>>>
    /\ category_seq = 2
    /\ products = <<[user_id |-> 1, user_name |-> "Ann", product_name |-> <<"B">>,
                     photo_file_id |-> "f1", rating |-> RATING_GOOD,
                     created_at |-> 1, category_id |-> 1],
                    [user_id |-> 2, user_name |-> UNKNOWN, product_name |-> <<"B">>,
                     photo_file_id |-> None, rating |-> RATING_BAD,
                     created_at |-> 2, category_id |-> 1]>>
    /\ product_seq = 3
    /\ user_state = <<>>
    /\ ev = NoEvent
    /\ out = State.out
    /\ events = 0

NextEdit ==
    \/ TextMessage(EditEvents, MaxEvents)
    \/ PhotoMessage(EditEvents, MaxEvents)
    \/ Command(EditEvents, MaxEvents)

SpecEdit == InitEdit /\ [][NextEdit]_vars

\* Scenario "categories": users 1 and 2 choose and add categories in the add
\* dialog while the administrator renames a category.
CategoryEvents ==
    {T(1, BTN_ADD), T(1, BTN_OTHER), T(1, BTN_BACK), T(1, <<"1">>), T(1, <<"B">>),
     T(2, BTN_ADD), T(2, BTN_OTHER), T(2, <<"1">>),
     C(0, "change_cat"), T(0, <<"1">>), T(0, <<"2">>), T(0, BTN_OTHER), T(0, <<"B">>)}

NextCategories ==
    \/ TextMessage(CategoryEvents, MaxEvents)
    \/ Command(CategoryEvents, MaxEvents)

SpecCategories == Init /\ [][NextCategories]_vars

\* Direct calls of add_category, with names the handlers pass and names they
\* never pass (empty, blank, unstripped, reserved); out.ret is the id
\* returned, 0 for None.
CategoryNames ==
    {<<>>, <<" ">>, <<"A">>, <<"B">>, <<" ", "A">>, BTN_BACK, BTN_OTHER, <<" ", "Nazad">>}

AddCategoryCall(name) ==
    /\ events < MaxEvents
    /\ LET r == add_category(State, name)
       IN /\ r.S.category_seq <= MaxCategoryId + 1
          /\ categories' = r.S.categories
          /\ category_seq' = r.S.category_seq
          /\ out' = [r.S.out EXCEPT !.ret = r.ret]
          /\ ev' = [NoEvent EXCEPT !.kind = "add_category", !.text = name]
          /\ events' = events + 1
          /\ UNCHANGED <<users, products, product_seq, user_state>>

NextAddCategory == \E name \in CategoryNames : AddCategoryCall(name)

SpecAddCategory == Init /\ [][NextAddCategory]_vars

\* Scenario "references": user 1 submits a product, sending photos without
\* caption, while the administrator moves a product and clears the store.
RefEvents ==
    {T(1, BTN_ADD), T(1, <<"1">>), T(1, <<"A">>), T(1, RATING_GOOD),
     P(1, "f1", <<>>), P(1, "f2", <<>>),
     C(0, "clear_all"), C(0, "change_list"), T(0, <<"1">>)}

NextRefs ==
    \/ TextMessage(RefEvents, MaxEvents)
    \/ PhotoMessage(RefEvents, MaxEvents)
    \/ Command(RefEvents, MaxEvents)

SpecRefs == Init /\ [][NextRefs]_vars

\* Scenario "panic": users 1 and 2 press main-menu buttons in the middle of
\* the add dialog (choosing a category, naming a new category, naming the
\* product, rating it).
PanicEvents ==
    {T(1, BTN_ADD), T(1, BTN_OTHER), T(1, <<"1">>), T(1, <<"A">>),
     T(1, BTN_BUY), T(1, BTN_AVOID), T(1, BELL_ON), T(1, <<" ", "bell_off">>),
     P(1, "f1", <<>>),
     T(2, BTN_ADD), T(2, BTN_OTHER), T(2, BTN_AVOID), T(2, BELL_OFF)}

NextPanic ==
    \/ TextMessage(PanicEvents, MaxEvents)
    \/ PhotoMessage(PanicEvents, MaxEvents)

SpecPanic == Init /\ [][NextPanic]_vars

\* Direct calls of toggle_notifications, once or twice in a row, with the
\* store in reach or not for the read and the write of the call, while the
\* administrator may delete a user's row.  ev.cmd is "once" or "twice",
\* ev.text names what fails, out.ret is the value the last call returned.
Failures(read_up, write_up) ==
    (IF read_up THEN <<>> ELSE <<"read_fails">>) \o (IF write_up THEN <<>> ELSE <<"write_fails">>)

ToggleCalls(user_id, twice, read_up, write_up) ==
    /\ events < MaxEvents
    /\ LET first == toggle_notifications_with_outage(State, user_id, read_up, write_up)
           last == IF twice
                   THEN toggle_notifications_with_outage(first.S, user_id, read_up, write_up)
                   ELSE first
       IN /\ users' = last.S.users
          /\ out' = [last.S.out EXCEPT !.ret = IF last.ret THEN 1 ELSE 0]
          /\ ev' = [NoEvent EXCEPT !.user = user_id, !.kind = "toggle_notifications",
                                   !.cmd = IF twice THEN "twice" ELSE "once",
                                   !.text = Failures(read_up, write_up)]
          /\ events' = events + 1
          /\ UNCHANGED <<categories, category_seq, products, product_seq, user_state>>

ToggleEvents == {C(0, "del_user"), T(0, <<"2">>), T(0, <<"3">>)}

NextToggle ==
    \/ \E user_id \in UserIds, twice, read_up, write_up \in BOOLEAN :
          ToggleCalls(user_id, twice, read_up, write_up)
    \/ TextMessage(ToggleEvents, MaxEvents)
    \/ Command(ToggleEvents, MaxEvents)

SpecToggle == Init /\ [][NextToggle]_vars

\* Scenario "frame": on a store with two categories and a product of user 1
\* and of user 2, the administrator renames a category, moves a product, bans,
\* unbans and deletes users, user 1 edits the name and the photo of a product,
\* and the administrator and user 2 toggle notifications.
FrameEvents ==
    {C(0, "change_cat"), C(0, "change_list"), C(0, "ban_user"), C(0, "unban_user"),
     C(0, "del_user"), T(0, <<"1">>), T(0, <<"2">>),
     C(1, "edit_product"), T(1, <<"1">>), T(1, EDIT_NAME), T(1, EDIT_PHOTO), P(1, "f2", <<>>),
     T(0, BELL_ON), T(2, BELL_OFF)}

InitFrame ==
    /\ users = [u \in UserIds |-> NewUser]
    /\ categories = <<<<"A">>, <<"B">>>>
    /\ category_seq = 3
    /\ products = <<[user_id |-> 1, user_name |-> "Ann", product_name |-> <<"B">>,
                     photo_file_id |-> "f1", rating |-> RATING_GOOD,
                     created_at |-> 1, category_id |-> 1],
                    [user_id |-> 2, user_name |-> UNKNOWN, product_name |-> <<"A">>,
                     photo_file_id |-> None, rating |-> RATING_BAD,
                     created_at |-> 2, category_id |-> 1]>>
    /\ product_seq = 3
    /\ user_state = <<>>
    /\ ev = NoEvent
    /\ out = State.out
    /\ events = 0

NextFrame ==
    \/ TextMessage(FrameEvents, MaxEvents)
    \/ PhotoMessage(FrameEvents, MaxEvents)
    \/ Command(FrameEvents, MaxEvents)

SpecFrame == InitFrame /\ [][NextFrame]_vars

\* Scenario "done": every dialog is run to its last step: the administrator
\* renames a category, moves and deletes a product, deletes, bans and unbans a
\* user; user 1 adds a product, views a category and renames a product.
DoneEvents ==
    {C(0, "change_cat"), C(0, "change_list"), C(0, "del_position"), C(0, "del_user"),
     C(0, "ban_user"), C(0, "unban_user"), T(0, <<"1">>), T(0, <<"2">>),
     T(1, BTN_ADD), T(1, BTN_BUY), T(1, <<"1">>), T(1, RATING_GOOD),
     C(1, "edit_product"), T(1, EDIT_NAME)}

NextDone ==
    \/ TextMessage(DoneEvents, MaxEvents)
    \/ Command(DoneEvents, MaxEvents)

SpecDone == Init /\ [][NextDone]_vars

\* Scenario "browse": the administrator and user 1 view categories
\* (Recommend, Avoid) and send, in the middle of it, numbers, Other, names,
\* photos and commands.
BrowseEvents ==
    {T(0, BTN_BUY), T(0, <<"1">>), T(0, BTN_OTHER), C(0, "clear_all"), C(0, "start"),
     T(1, BTN_BUY), T(1, BTN_AVOID), T(1, <<"1">>), T(1, <<"2">>), T(1, BTN_OTHER),
     T(1, <<"A">>), T(1, BTN_BACK), P(1, "f1", <<"A">>), C(1, "edit_product"), C(1, "clear_all")}

NextBrowse ==
    \/ TextMessage(BrowseEvents, MaxEvents)
    \/ PhotoMessage(BrowseEvents, MaxEvents)
    \/ Command(BrowseEvents, MaxEvents)

SpecBrowse == Init /\ [][NextBrowse]_vars

\* Scenario "leak": the process is in the state that Add product, "2" and the
\* photo f1 without caption of user 1 lead to on a store with categories A and
\* B and a product of user 1: user 1 is asked for the product name, with
\* category 2 and photo f1 stashed.  User 1 finishes that dialog or leaves it
\* (Back, Recommend, /edit_product, Add product) and adds a product in a new
\* one, where only category 1 can be chosen and only photo f2 is sent.
LeakEvents ==
    {T(1, BTN_BACK), T(1, BTN_BUY), C(1, "edit_product"), C(1, "start"),
     T(1, BTN_ADD), T(1, <<"1">>), T(1, <<"A">>), T(1, RATING_GOOD), P(1, "f2", <<>>)}

InitLeak ==
    /\ users = [u \in UserIds |-> NewUser]
    /\ categories = <<<<"A">>, <<"B">>>>
    /\ category_seq = 3
    /\ products = <<[user_id |-> 1, user_name |-> "Ann", product_name |-> <<"B">>,
                     photo_file_id |-> None, rating |-> RATING_GOOD,
                     created_at |-> 1, category_id |-> 1]>>
    /\ product_seq = 2
    /\ user_state = Put(<<>>, 1, [step |-> "awaiting_product_name", mode |-> "add",
                                  category_id |-> 2, photo_file_id |-> "f1"])
    /\ ev = NoEvent
    /\ out = State.out
    /\ events = 0

NextLeak ==
    \/ TextMessage(LeakEvents, MaxEvents)
    \/ PhotoMessage(LeakEvents, MaxEvents)
    \/ Command(LeakEvents, MaxEvents)

SpecLeak == InitLeak /\ [][NextLeak]_vars

\* Scenario "deleted mid-dialog": from the state of scenario "leak" (user 1 is
\* asked for the product name) user 1 goes on with the add dialog while the
\* administrator runs /del_user and picks a user of the list
DelMidEvents ==
    {C(0, "del_user"), T(0, <<"2">>), T(0, <<"3">>), T(0, BTN_BACK),
     T(1, <<"A">>), T(1, RATING_GOOD), T(1, BTN_ADD), T(1, <<"1">>), P(1, "f2", <<"A">>)}

NextDelMid ==
    \/ TextMessage(DelMidEvents, MaxEvents)
    \/ PhotoMessage(DelMidEvents, MaxEvents)
    \/ Command(DelMidEvents, MaxEvents)

SpecDelMid == InitLeak /\ [][NextDelMid]_vars

\* Scenario "ban and notify": from the state of scenario "leak" user 1 names
\* the product and rates it while the administrator bans or unbans a user of
\* the list and user 2 uses the notification button
BanFanEvents ==
    {C(0, "ban_user"), C(0, "unban_user"), T(0, <<"2">>), T(0, <<"3">>),
     T(1, <<"A">>), T(1, RATING_GOOD), P(1, "f2", <<"A">>), T(2, BELL_OFF), T(2, BELL_ON)}

NextBanFan ==
    \/ TextMessage(BanFanEvents, MaxEvents)
    \/ PhotoMessage(BanFanEvents, MaxEvents)
    \/ Command(BanFanEvents, MaxEvents)

SpecBanFan == InitLeak /\ [][NextBanFan]_vars

\* ---- the claims

\* the steps that expect a numeric selection
NumericSteps ==
    {"choosing_category_for_add", "choosing_category_for_view", "selecting_user_to_delete",
     "selecting_user_to_ban", "selecting_user_to_unban", "selecting_category_to_rename",
     "selecting_product_to_move", "selecting_new_category_for_product",
     "selecting_product_to_delete", "selecting_product_to_edit"}

\* the number N of options a numeric step offers
Options(S, d) ==
    IF StepOf(d) \in {"choosing_category_for_add", "choosing_category_for_view",
                      "selecting_category_to_rename"}
    THEN Len(get_categories(S))
    ELSE IF StepOf(d) \in {"selecting_user_to_delete", "selecting_user_to_ban",
                           "selecting_user_to_unban"}
    THEN Len(GetOr(d, "users", <<>>))
    ELSE IF StepOf(d) = "selecting_new_category_for_product"
    THEN Len(GetOr(d, "categories", <<>>))
    ELSE Len(GetOr(d, "products", <<>>))

\* the replies that ask again for a number
NumberReprompts ==
    {"invalid_number", "enter_user_number", "invalid_category_number",
     "enter_category_number", "invalid_product_number", "enter_product_number",
     "invalid_category_number_retry", "choose_number_other_or_back"}

\* C1: in a step that expects a numeric selection, a text that is not a
\* number (nor Back, Other or a main-menu trigger) or is a number outside
\* [1, N] leaves the user's step as it is and is answered with a re-prompt.
C1_InvalidSelectionKeepsStep ==
    [][LET u == ev'.user
           d == CurrentState(State, u)
           text == strip(ev'.text)
       IN (/\ ev'.kind = "text"
           /\ StepOf(d) \in NumericSteps
           /\ ~is_user_banned(State, u)
           /\ text \notin main_menu_triggers \cup {BTN_BACK, BTN_OTHER}
           /\ ~(isdigit(text) /\ int(text) \in 1..Options(State, d)))
          => /\ u \in DOMAIN user_state'
             /\ StepOf(user_state'[u]) = StepOf(d)
             /\ Len(out'.replies) = 1
             /\ out'.replies[1] \in NumberReprompts]_vars

\* C2: every update a banned user sends is answered with 'access denied' and
\* changes neither the conversation table nor the store.
C2_BannedUserIsDenied ==
    [][(/\ ev'.user # ADMIN_USER_ID
        /\ ev'.user \in DOMAIN users
        /\ users[ev'.user].is_banned)
       => /\ out'.replies = <<"access_denied">>
          /\ user_state' = user_state
          /\ users' = users
          /\ categories' = categories
          /\ products' = products]_vars

\* C3: in every dialog step, the text Back removes the user's entry of the
\* conversation table.
C3_BackReturnsToIdle ==
    [][(/\ ev'.kind = "text"
        /\ strip(ev'.text) = BTN_BACK
        /\ ev'.user \in DOMAIN user_state
        /\ ~is_user_banned(State, ev'.user))
       => ev'.user \notin DOMAIN user_state']_vars

\* C4: handling an update of user A leaves the conversation entry of every
\* other user as it was, and the step A's handler dispatches on is the step of
\* A's own entry (or none, when a main-menu trigger reset it or the handler
\* reads no step).
C4_UsersAreIsolated ==
    [][/\ \A b \in UserIds \ {ev'.user} :
             /\ (b \in DOMAIN user_state') = (b \in DOMAIN user_state)
             /\ b \in DOMAIN user_state => user_state'[b] = user_state[b]
       /\ out'.step \in {None, StepOf(GetOr(user_state, ev'.user, <<>>))}]_vars

\* C4 happens: the handler of user a has dispatched on a's step while user b
\* is in a different step
C4_TwoUsersInDifferentSteps ==
    \E a, b \in DOMAIN user_state :
        /\ a # b
        /\ ev.user = a
        /\ out.step # None
        /\ StepOf(user_state[b]) \notin {None, out.step}

\* C5: a rating sent by a non-banned user in step awaiting_rating inserts
\* exactly one product, owned by the sender, with the category, name and photo
\* of the dialog and the rating sent, keeps the other products, and leaves the
\* user idle.
C5_AddDialogInsertsTheProduct ==
    [][LET u == ev'.user
           d == GetOr(user_state, u, <<>>)
           new == DOMAIN products' \ DOMAIN products
       IN (/\ ev'.kind = "text"
           /\ StepOf(d) = "awaiting_rating"
           /\ ~is_user_banned(State, u)
           /\ strip(ev'.text) \in {RATING_GOOD, RATING_BAD})
          => /\ Cardinality(new) = 1
             /\ \A p \in new :
                   /\ products'[p].user_id = u
                   /\ products'[p].category_id = GetOr(d, "category_id", 0)
                   /\ products'[p].product_name = GetOr(d, "product_name", <<>>)
                   /\ products'[p].rating = strip(ev'.text)
                   /\ products'[p].photo_file_id = GetOr(d, "photo_file_id", None)
             /\ \A p \in DOMAIN products :
                   p \in DOMAIN products' /\ products'[p] = products[p]
             /\ u \notin DOMAIN user_state']_vars

\* C6: when a product is saved, the notification is attempted once for each
\* user with notifications enabled other than the author, and for nobody else.
C6_FanOutReachesExactlyTheSubscribers ==
    out.inserted # 0 =>
        /\ out.fanout
        /\ \A i, j \in DOMAIN out.attempted : out.attempted[i] = out.attempted[j] => i = j
        /\ Range(out.attempted) =
               {u \in DOMAIN users : users[u].notifications_enabled} \ {ev.user}

\* C6 happens: a product was saved, somebody was notified, the author has
\* notifications enabled and another user has them disabled
C6_SavedWithSubscribers ==
    /\ out.inserted # 0
    /\ out.attempted # <<>>
    /\ users[ev.user].notifications_enabled
    /\ \E u \in DOMAIN users : ~users[u].notifications_enabled

\* C7: when the INSERT of save_product fails in step awaiting_rating, no
\* subscriber receives the notification of a new product.
C7_NoFanOutWithoutSave ==
    ("save_product" \in out.ops /\ out.inserted = 0) => out.delivered = {}

\* C8: when the delivery to a subscriber fails, the notification is still
\* attempted for every subscriber, the product saved stays in the store, and
\* the author is idle and is told that the product is saved.
C8_DeliveryFailureIsContained ==
    (out.fanout /\ Range(out.attempted) \ out.delivered # {}) =>
        /\ Range(out.attempted) =
               {u \in DOMAIN users : users[u].notifications_enabled} \ {ev.user}
        /\ out.inserted # 0 =>
               /\ out.inserted \in DOMAIN products
               /\ products[out.inserted].user_id = ev.user
        /\ ev.user \notin DOMAIN user_state
        /\ out.replies = <<"product_saved">>

\* C8 happens: a product was saved, the first delivery failed and a later one
\* succeeded
C8_FailedThenDelivered ==
    /\ out.inserted # 0
    /\ Len(out.attempted) >= 2
    /\ out.attempted[1] \notin out.delivered
    /\ out.attempted[Len(out.attempted)] \in out.delivered

\* C9: is_user_banned is false for the administrator, whatever the stored
\* flag, and no update of the administrator is answered 'access denied'.
C9_AdminIsNeverBanned ==
    /\ ~is_user_banned(State, ADMIN_USER_ID)
    /\ ev.user = ADMIN_USER_ID => "access_denied" \notin Range(out.replies)

\* C9 happens: the administrator's stored flag is set and the administrator's
\* /start has been handled
C9_FlaggedAdminIsServed ==
    /\ ADMIN_USER_ID \in DOMAIN users
    /\ users[ADMIN_USER_ID].is_banned
    /\ ev = C(ADMIN_USER_ID, "start")
    /\ out.replies = <<"hello">>

AdminOps ==
    {"clear_all", "rename_category", "move_product", "delete_product", "delete_user",
     "ban_user", "unban_user"}

AllAdminSteps ==
    {"selecting_user_to_delete", "selecting_user_to_ban", "selecting_user_to_unban",
     "selecting_category_to_rename", "entering_new_category_name",
     "selecting_product_to_move", "selecting_new_category_for_product",
     "selecting_product_to_delete"}

C11_EditOnlyOwnProduct ==
    [][\A p \in (DOMAIN products) \cap (DOMAIN products') :
          (\/ products'[p].product_name # products[p].product_name
           \/ products'[p].photo_file_id # products[p].photo_file_id)
          => products[p].user_id = ev'.user]_vars

\* C11 happens: user 1 has renamed the product they own through the edit
\* dialog while the product of user 2 is in the store
C11_OwnProductRenamed ==
    /\ ev.user = 1
    /\ out.step = "editing_product_name"
    /\ \E p, q \in DOMAIN products :
          /\ products[p].user_id = 1
          /\ products[p].product_name = <<"A">>
          /\ products[q].user_id = 2

\* C12: a photo message of a non-banned user in step editing_product_photo
\* sets the photo of the selected product to the photo sent, changes no other
\* field, and leaves the user idle.
C12_PhotoEditUpdatesPhoto ==
    [][LET u == ev'.user
           d == GetOr(user_state, u, <<>>)
           p == GetOr(d, "product_id", 0)
       IN (/\ ev'.kind = "photo"
           /\ StepOf(d) = "editing_product_photo"
           /\ ~is_user_banned(State, u)
           /\ p \in DOMAIN products)
          => /\ p \in DOMAIN products'
             /\ products'[p] = [products[p] EXCEPT !.photo_file_id = ev'.photo]
             /\ u \notin DOMAIN user_state']_vars

\* the item a number resolves to for user u: the category or product id the
\* handler of the number leaves in u's entry (0 when it leaves none)
Resolved(S, u, raw) ==
    {<<GetOr(GetOr(R.user_state, u, <<>>), "category_id", 0),
       GetOr(GetOr(R.user_state, u, <<>>), "product_id", 0)>> :
         R \in handle_text(S, u, raw)}

\* C13: while a user is in a numeric-selection step, an update of another
\* user does not change the item a number resolves to: the list is the one of
\* the step's entry.
C13_SelectionListsAreSnapshots ==
    [][\A a \in (DOMAIN user_state) \ {ev'.user} :
          (/\ StepOf(user_state[a]) \in NumericSteps
           /\ ~is_user_banned(State, a)
           /\ ~is_user_banned(State', a))
          => \A raw \in {<<"1">>, <<"2">>} :
                (int(raw) <= Options(State, user_state[a]))
                => Resolved(State', a, raw) = Resolved(State, a, raw)]_vars

\* C14: every category name is non-empty, is neither Back nor Other, and is
\* the name of one category only.
C14_CategoryNamesAreValid ==
    \A c \in DOMAIN categories :
        /\ strip(categories[c]) # <<>>
        /\ strip(categories[c]) \notin {BTN_BACK, BTN_OTHER}
        /\ \A c2 \in DOMAIN categories : categories[c2] = categories[c] => c2 = c

\* C17 as stated: the name Back entered in step adding_category is answered
\* with the invalid-name re-prompt, the user stays in adding_category and no
\* category is created.
C17_BackAsNameIsReprompted ==
    [][LET u == ev'.user
       IN (/\ ev'.kind = "text"
           /\ StepOf(GetOr(user_state, u, <<>>)) = "adding_category"
           /\ ~is_user_banned(State, u)
           /\ strip(ev'.text) = BTN_BACK)
          => /\ out'.replies = <<"invalid_category_name">>
             /\ u \in DOMAIN user_state'
             /\ StepOf(user_state'[u]) = "adding_category"
             /\ categories' = categories]_vars

\* C17, amended: in step adding_category the text Back cancels the dialog
\* (main menu, user idle) and the text Other is answered with the invalid-name
\* re-prompt with the user still in adding_category; neither creates a
\* category.
C17_ReservedNameCreatesNoCategory ==
    [][LET u == ev'.user
       IN (/\ ev'.kind = "text"
           /\ StepOf(GetOr(user_state, u, <<>>)) = "adding_category"
           /\ ~is_user_banned(State, u))
          => /\ strip(ev'.text) = BTN_BACK =>
                   /\ out'.replies = <<"choose_action">>
                   /\ u \notin DOMAIN user_state'
                   /\ categories' = categories
             /\ strip(ev'.text) = BTN_OTHER =>
                   /\ out'.replies = <<"invalid_category_name">>
                   /\ user_state' = user_state
                   /\ categories' = categories]_vars

\* C17 happens: user 1 went Add product, Other, Back
C17_BackEnteredAsName ==
    /\ ev = T(1, BTN_BACK)
    /\ out.step = "adding_category"
    /\ out.replies = <<"choose_action">>
    /\ 1 \notin DOMAIN user_state

C16_AddCategoryIsIdempotent ==
    [][(/\ ev'.kind = "add_category"
        /\ strip(ev'.text) \notin {<<>>, BTN_BACK, BTN_OTHER})
       => LET l == get_categories(State')
          IN /\ Cardinality({i \in DOMAIN l : l[i][2] = ev'.text}) = 1
             /\ \E i \in DOMAIN l : l[i] = <<out'.ret, ev'.text>>
             /\ \A c \in DOMAIN categories :
                   categories[c] = ev'.text => out'.ret = c /\ categories' = categories]_vars

\* C16 happens: add_category("B") was called when "B" was there already, and
\* returned its id
C16_RepeatedCall ==
    /\ ev.kind = "add_category"
    /\ ev.text = <<"B">>
    /\ out.ret \in DOMAIN categories
    /\ category_seq >= out.ret + 2

\* C18: the category_id of every product is the id of a category.
C18_ProductsReferenceCategories ==
    \A p \in DOMAIN products : products[p].category_id \in DOMAIN categories

\* C18 happens: a rating was sent after the category chosen in the dialog was
\* deleted, and the INSERT was refused
C18_SaveAfterClearAll ==
    /\ ev = T(1, RATING_GOOD)
    /\ out.step = "awaiting_rating"
    /\ "save_product" \in out.ops
    /\ out.inserted = 0
    /\ categories = <<>>

\* C19: the name of every product is non-empty.
C19_ProductNamesAreNonEmpty ==
    \A p \in DOMAIN products : strip(products[p].product_name) # <<>>

\* C20: a photo without caption of a non-banned user in step
\* awaiting_product_name sets photo_file_id in the user's entry to that photo
\* and changes nothing else: the step and the category id stay, no product is
\* saved.
C20_PhotoWithoutCaptionOnlyBuffers ==
    [][LET u == ev'.user
       IN (/\ ev'.kind = "photo"
           /\ ev'.text = <<>>
           /\ StepOf(GetOr(user_state, u, <<>>)) = "awaiting_product_name"
           /\ ~is_user_banned(State, u))
          => /\ user_state' = Put(user_state, u, Put(user_state[u], "photo_file_id", ev'.photo))
             /\ StepOf(user_state'[u]) = "awaiting_product_name"
             /\ user_state'[u]["category_id"] = user_state[u]["category_id"]
             /\ products' = products
             /\ product_seq' = product_seq
             /\ out'.ops = {}
             /\ out'.replies = <<"please_name_product">>]_vars

\* C20 happens: user 1 sent photo f2 without caption in step
\* awaiting_product_name; it is buffered and the user is asked for the name
C20_PhotoBuffered ==
    /\ ev = P(1, "f2", <<>>)
    /\ out.step = "awaiting_product_name"
    /\ out.replies = <<"please_name_product">>
    /\ 1 \in DOMAIN user_state
    /\ user_state[1]["photo_file_id"] = "f2"

\* C21: when a non-banned user who is in a dialog step sends Add product,
\* Recommend, Avoid or a notification toggle, the handler dispatches on no
\* step, the text is not consumed by the dialog (no category and no product is
\* created or changed), and the user's entry afterwards is the one the button
\* gives an idle user: the category choice in the button's mode, or no entry
\* and the preference inverted for a toggle.
C21_MenuButtonLeavesTheDialog ==
    [][LET u == ev'.user
           text == strip(ev'.text)
           rows == IF u \in DOMAIN users THEN users ELSE Put(users, u, NewUser)
       IN (/\ ev'.kind = "text"
           /\ u \in DOMAIN user_state
           /\ StepOf(user_state[u]) # None
           /\ ~is_user_banned(State, u)
           /\ text \in {BTN_ADD, BTN_BUY, BTN_AVOID, BELL_ON, BELL_OFF})
          => /\ out'.step = None
             /\ categories' = categories
             /\ products' = products
             /\ \A b \in UserIds \ {u} :
                   GetOr(user_state', b, <<>>) = GetOr(user_state, b, <<>>)
             /\ text = BTN_ADD =>
                   /\ user_state'[u] = [step |-> "choosing_category_for_add", mode |-> "add"]
                   /\ users' = rows
             /\ text = BTN_BUY =>
                   /\ user_state'[u] = [step |-> "choosing_category_for_view",
                                        mode |-> "recommend"]
                   /\ users' = rows
             /\ text = BTN_AVOID =>
                   /\ user_state'[u] = [step |-> "choosing_category_for_view", mode |-> "avoid"]
                   /\ users' = rows
             /\ text \in {BELL_ON, BELL_OFF} =>
                   /\ u \notin DOMAIN user_state'
                   /\ users' = [rows EXCEPT ![u].notifications_enabled = ~@]]_vars

\* C21 happens: user 1 pressed Recommend when asked for the name of a new
\* category and is now choosing a category to view, with no category of that
\* name
C21_ButtonPressedInsteadOfName ==
    /\ ev = T(1, BTN_BUY)
    /\ out.had_step = "adding_category"
    /\ user_state[1] = [step |-> "choosing_category_for_view", mode |-> "recommend"]
    /\ \A c \in DOMAIN categories : categories[c] # BTN_BUY

\* C22: two calls of toggle_notifications in a row for a user, with the store
\* in reach, leave the stored notifications_enabled of the user as it was (TRUE,
\* the default, when the user had no row) and leave the rows of the other
\* users as they were.
C22_ToggleTwiceRestores ==
    [][LET u == ev'.user
       IN (/\ ev'.kind = "toggle_notifications"
           /\ ev'.cmd = "twice"
           /\ ev'.text = <<>>)
          => /\ u \in DOMAIN users'
             /\ users'[u].notifications_enabled =
                    GetOr(users, u, NewUser).notifications_enabled
             /\ \A b \in UserIds \ {u} : GetOr(users', b, None) = GetOr(users, b, None)]_vars

\* C22 happens: toggle_notifications was called twice for user 2, whose
\* notifications are disabled before and after
C22_ToggledTwiceFromOff ==
    /\ ev.kind = "toggle_notifications"
    /\ ev.cmd = "twice"
    /\ ev.text = <<>>
    /\ ev.user = 2
    /\ out.ret = 0
    /\ 2 \in DOMAIN users
    /\ ~users[2].notifications_enabled

\* C23: after a call of toggle_notifications the stored preference of the
\* user, as get_notification_status reads it (TRUE for a user without a row),
\* is the value the call returned, also when the read or the write of the call
\* fails.
C23_ReturnedValueIsStored ==
    [][(/\ ev'.kind = "toggle_notifications"
        /\ ev'.cmd = "once")
       => GetOr(users', ev'.user, NewUser).notifications_enabled = (out'.ret = 1)]_vars

\* C24: in step awaiting_rating a text of a non-banned user that is neither a
\* rating nor Back (nor a main-menu button) is answered with the re-prompt and
\* leaves the user's entry as it was: step awaiting_rating with the category
\* id, the product name and the photo of the dialog.
C24_InvalidRatingKeepsEntry ==
    [][LET u == ev'.user
       IN (/\ ev'.kind = "text"
           /\ StepOf(GetOr(user_state, u, <<>>)) = "awaiting_rating"
           /\ ~is_user_banned(State, u)
           /\ strip(ev'.text) \notin {RATING_GOOD, RATING_BAD, BTN_BACK} \cup main_menu_triggers)
          => /\ out'.replies = <<"choose_rating_or_back">>
             /\ u \in DOMAIN user_state'
             /\ user_state'[u] = user_state[u]]_vars

\* C25: when the store mutation of a dialog's last step fails, the user is
\* not sent the confirmation of success and has no conversation entry left;
\* stated here for the INSERT of save_product in step awaiting_rating.
C25_FailedSaveIsNotConfirmed ==
    ("save_product" \in out.ops /\ out.inserted = 0) =>
        /\ "product_saved" \notin Range(out.replies)
        /\ ev.user \notin DOMAIN user_state

\* C26: no update changes the owner, the author name, the rating or the
\* creation time of a product that stays in the store; an update changes at
\* most one product, and of it at most one of name, photo and category: the
\* name only by the name edit, the category only by the move.  Renaming a
\* category changes no product.
C26_ProductFieldsAreFramed ==
    [][LET kept == (DOMAIN products) \cap (DOMAIN products')
       IN /\ \A p \in kept :
                /\ products'[p].user_id = products[p].user_id
                /\ products'[p].user_name = products[p].user_name
                /\ products'[p].rating = products[p].rating
                /\ products'[p].created_at = products[p].created_at
                /\ Cardinality({f \in {"product_name", "photo_file_id", "category_id"} :
                                   products'[p][f] # products[p][f]}) <= 1
                /\ products'[p].product_name # products[p].product_name
                      => "edit_product_name" \in out'.ops
                /\ products'[p].category_id # products[p].category_id
                      => "move_product" \in out'.ops
          /\ Cardinality({p \in kept : products'[p] # products[p]}) <= 1
          /\ "rename_category" \in out'.ops => products' = products]_vars

\* C26 happens: the administrator has moved product 1 to the second category
\* through the dialog
C26_ProductMoved ==
    /\ ev = T(0, <<"2">>)
    /\ out.had_step = "selecting_new_category_for_product"
    /\ "move_product" \in out.ops
    /\ 1 \in DOMAIN products
    /\ products[1].category_id = 2
    /\ products[1].created_at = 1

\* C27: a number of the list sent in step selecting_user_to_delete removes
\* the row of the user listed under it and every product owned by that user,
\* in the one update, and leaves the rows of the other users, the products of
\* the other users and the categories as they were (the only row that can
\* appear is the sender's own, created as for every message when missing).
C27_DeleteUserCascades ==
    [][LET u == ev'.user
           d == GetOr(user_state, u, <<>>)
           l == GetOr(d, "users", <<>>)
           text == strip(ev'.text)
       IN (/\ ev'.kind = "text"
           /\ StepOf(d) = "selecting_user_to_delete"
           /\ ~is_user_banned(State, u)
           /\ isdigit(text)
           /\ int(text) \in 1..Len(l))
          => LET target == l[int(text)][1]
             IN /\ target \notin DOMAIN users'
                /\ DOMAIN users' \subseteq (DOMAIN users) \cup {u}
                /\ \A b \in (DOMAIN users) \ {target} :
                      b \in DOMAIN users' /\ users'[b] = users[b]
                /\ DOMAIN products' = {p \in DOMAIN products : products[p].user_id # target}
                /\ \A p \in DOMAIN products' : products'[p] = products[p]
                /\ categories' = categories]_vars

\* C27 happens: the administrator has deleted user 1 through the dialog; the
\* product of user 1 is gone and the product of user 2 is there
C27_UserOneDeleted ==
    /\ ev = T(0, <<"2">>)
    /\ out.had_step = "selecting_user_to_delete"
    /\ "delete_user" \in out.ops
    /\ DOMAIN users = {0, 2}
    /\ DOMAIN products = {2}
    /\ products[2].user_id = 2

\* C28: /clear_all of the administrator leaves no product and no category,
\* and leaves every row of users as it was.
C28_ClearAllKeepsUsers ==
    [][(/\ ev'.kind = "command"
        /\ ev'.cmd = "clear_all"
        /\ ev'.user = ADMIN_USER_ID)
       => /\ products' = <<>>
          /\ categories' = <<>>
          /\ users' = users]_vars

\* C28 happens: the administrator sent /clear_all on a store that had a
\* product and a user with notifications disabled
C28_StoreCleared ==
    /\ ev = C(ADMIN_USER_ID, "clear_all")
    /\ "clear_all" \in out.ops
    /\ product_seq > 1
    /\ products = <<>>
    /\ categories = <<>>
    /\ \E u \in DOMAIN users : ~users[u].notifications_enabled

\* the store operations that end a dialog
TerminalOps ==
    {"save_product", "rename_category", "move_product", "delete_product",
     "edit_product_name", "delete_user", "ban_user", "unban_user"}

\* C29: after a handler has run the last action of a dialog (product saved,
\* product list of a category shown, category renamed, product moved, product
\* deleted, product name edited, user deleted, banned or unbanned) the user
\* who sent the update has no entry in the conversation table.
C29_DialogEndClearsEntry ==
    (\/ out.ops \cap TerminalOps # {}
     \/ out.listed # <<>>
     \/ "no_items_in_category" \in Range(out.replies))
    => ev.user \notin DOMAIN user_state

\* C29 happens: user 1 has been shown the products of a category while the
\* administrator is in a dialog, and user 1 has no entry
C29_ListShown ==
    /\ ev = T(1, <<"1">>)
    /\ out.had_step = "choosing_category_for_view"
    /\ out.listed # <<>>
    /\ 1 \notin DOMAIN user_state
    /\ ADMIN_USER_ID \in DOMAIN user_state

\* C30: in step adding_category a text of a non-banned user that is not
\* empty, not Back or Other and not a main-menu button leaves exactly one
\* category of that name: the categories stay as they are when the name is
\* there already, and one category of that name is added otherwise.  The user
\* is then in step choosing_category_for_add with mode add, and no product is
\* created.
C30_NewCategoryIsCreatedOrReused ==
    [][LET u == ev'.user
           text == strip(ev'.text)
           known == {c \in DOMAIN categories : categories[c] = text}
       IN (/\ ev'.kind = "text"
           /\ StepOf(GetOr(user_state, u, <<>>)) = "adding_category"
           /\ ~is_user_banned(State, u)
           /\ text \notin {<<>>, BTN_BACK, BTN_OTHER} \cup main_menu_triggers)
          => /\ known # {} => categories' = categories
             /\ known = {} =>
                   \E c \in (DOMAIN categories') \ (DOMAIN categories) :
                       categories' = Put(categories, c, text)
             /\ Cardinality({c \in DOMAIN categories' : categories'[c] = text}) = 1
             /\ u \in DOMAIN user_state'
             /\ StepOf(user_state'[u]) = "choosing_category_for_add"
             /\ GetOr(user_state'[u], "mode", None) = "add"
             /\ products' = products
             /\ product_seq' = product_seq]_vars

\* C30 happens: user 1 entered the new category name "1" and is back at the
\* choice of a category in add mode
C30_CategoryAdded ==
    /\ ev = T(1, <<"1">>)
    /\ out.had_step = "adding_category"
    /\ \E c \in DOMAIN categories : categories[c] = <<"1">>
    /\ user_state[1] = [step |-> "choosing_category_for_add", mode |-> "add"]

\* C31 as stated: no update of a non-banned user who is in step
\* choosing_category_for_view changes the categories or the products; Other
\* is answered with the re-prompt and leaves the entry as it is, and a number
\* in range leaves the user without entry.
C31_NoUpdateWhileBrowsingWrites ==
    [][LET u == ev'.user
           text == strip(ev'.text)
       IN (/\ StepOf(GetOr(user_state, u, <<>>)) = "choosing_category_for_view"
           /\ ~is_user_banned(State, u))
          => /\ categories' = categories
             /\ products' = products
             /\ (ev'.kind = "text" /\ text = BTN_OTHER) =>
                   /\ user_state' = user_state
                   /\ out'.replies = <<"choose_number_other_or_back">>
             /\ (ev'.kind = "text" /\ isdigit(text)
                    /\ int(text) \in 1..Cardinality(DOMAIN categories)) =>
                   u \notin DOMAIN user_state']_vars

\* C31, amended: no text message and no photo message of a non-banned user
\* who is in step choosing_category_for_view changes the categories or the
\* products; Other is answered with the re-prompt and leaves the entry as it
\* is, and a number in range leaves the user without entry.  (A command is
\* handled as the command it is.)
C31_BrowsingIsReadOnly ==
    [][LET u == ev'.user
           text == strip(ev'.text)
       IN (/\ ev'.kind \in {"text", "photo"}
           /\ StepOf(GetOr(user_state, u, <<>>)) = "choosing_category_for_view"
           /\ ~is_user_banned(State, u))
          => /\ categories' = categories
             /\ products' = products
             /\ category_seq' = category_seq
             /\ product_seq' = product_seq
             /\ (ev'.kind = "text" /\ text = BTN_OTHER) =>
                   /\ user_state' = user_state
                   /\ out'.replies = <<"choose_number_other_or_back">>
             /\ (ev'.kind = "text" /\ isdigit(text)
                    /\ int(text) \in 1..Cardinality(DOMAIN categories)) =>
                   u \notin DOMAIN user_state']_vars

\* C31 happens: user 1 sent Other while viewing and is still in the view step
C31_OtherWhileBrowsing ==
    /\ ev = T(1, BTN_OTHER)
    /\ out.had_step = "choosing_category_for_view"
    /\ out.replies = <<"choose_number_other_or_back">>
    /\ StepOf(GetOr(user_state, 1, <<>>)) = "choosing_category_for_view"
    /\ categories # <<>>

\* C32: a user other than the administrator whose ban flag is set keeps the
\* row and the flag through every update that is not an unban.
C32_BanLastsUntilUnban ==
    [][\A u \in UserIds \ {ADMIN_USER_ID} :
          (/\ u \in DOMAIN users
           /\ users[u].is_banned
           /\ "unban_user" \notin out'.ops)
          => /\ u \in DOMAIN users'
             /\ users'[u].is_banned]_vars

\* C33: for every user who has a row before and after an update: a ban or
\* an unban leaves notifications_enabled as it was, a notification toggle
\* leaves is_banned as it was, and an update that does none of these (it runs
\* ensure_user_exists at most) leaves the row as it was.
C33_FlagsAreIndependent ==
    [][\A u \in (DOMAIN users) \cap (DOMAIN users') :
          /\ out'.ops \cap {"ban_user", "unban_user"} # {}
                => users'[u].notifications_enabled = users[u].notifications_enabled
          /\ "toggle_notifications" \in out'.ops
                => users'[u].is_banned = users[u].is_banned
          /\ out'.ops \cap {"ban_user", "unban_user", "toggle_notifications"} = {}
                => users'[u] = users[u]]_vars

\* C33 happens: the administrator has banned user 2, whose notifications
\* are disabled and stay so
C33_BannedWithNotificationsOff ==
    /\ "ban_user" \in out.ops
    /\ 2 \in DOMAIN users
    /\ users[2].is_banned
    /\ ~users[2].notifications_enabled

\* C34: nothing stashed in one add dialog reaches a product of a later one.
\* (1) An entry that comes into step choosing_category_for_add holds the step
\* and the mode only.  (2) A photo is stashed in a user's entry only by that
\* user's own message in step awaiting_product_name.  (3) A product inserted
\* has the category, the name and the photo of the sender's entry.  (4) In
\* the scenario, where category 2 and photo f1 belong to the dialog under way
\* at the start, no product of category 1 (chosen in a later dialog) has
\* photo f1.
C34_NoStashLeak ==
    [][/\ \A u \in DOMAIN user_state' :
             (/\ StepOf(user_state'[u]) = "choosing_category_for_add"
              /\ StepOf(GetOr(user_state, u, <<>>)) # "choosing_category_for_add")
             => DOMAIN user_state'[u] = {"step", "mode"}
       /\ \A u \in DOMAIN user_state' :
             LET before == GetOr(GetOr(user_state, u, <<>>), "photo_file_id", "absent")
                 after == GetOr(user_state'[u], "photo_file_id", "absent")
             IN (after # "absent" /\ after # before)
                => /\ ev'.user = u
                   /\ StepOf(GetOr(user_state, u, <<>>)) = "awaiting_product_name"
                   /\ after \in {ev'.photo, None}
       /\ \A p \in (DOMAIN products') \ (DOMAIN products) :
             LET d == GetOr(user_state, ev'.user, <<>>)
             IN /\ StepOf(d) = "awaiting_rating"
                /\ products'[p].category_id = GetOr(d, "category_id", 0)
                /\ products'[p].product_name = GetOr(d, "product_name", <<>>)
                /\ products'[p].photo_file_id = GetOr(d, "photo_file_id", None)
       /\ \A p \in DOMAIN products' :
             products'[p].category_id = 1 => products'[p].photo_file_id # "f1"]_vars

\* C34 happens: user 1 left the dialog that had photo f1 stashed, sent photo
\* f2 in a new one and saved a product of category 1 with photo f2
C34_SavedInLaterDialog ==
    /\ ev = T(1, RATING_GOOD)
    /\ out.inserted \in DOMAIN products
    /\ products[out.inserted].category_id = 1
    /\ products[out.inserted].photo_file_id = "f2"

\* C35: every product's user_id has a row in users, also after the
\* administrator deleted a user in the middle of the add dialog and that user
\* finished the dialog.
C35_AuthorsHaveRows ==
    \A p \in DOMAIN products : products[p].user_id \in DOMAIN users

\* C35 happens: user 1, deleted with product 1 while in the add dialog, sent
\* the rating and the product was saved
C35_DeletedUserFinished ==
    /\ ev = T(1, RATING_GOOD)
    /\ 1 \notin DOMAIN products
    /\ out.inserted \in DOMAIN products
    /\ products[out.inserted].user_id = 1
    /\ events <= 4

\* C36: when a product is saved, the notification is sent to no user whose
\* is_banned flag is set at that time.
C36_NoDeliveryToBanned ==
    [][out'.fanout =>
          \A i \in DOMAIN out'.attempted :
              LET u == out'.attempted[i]
              IN u \in DOMAIN users => ~users[u].is_banned]_vars

====
